---- MODULE Spec2Model ----
(***************************************************************************)
(* The command registry of jbc_FE_commands_full.h: the two namespaces      *)
(* jbc_cmd::BASE and jbc_cmd::FE_02 of uint8_t command identifiers, and    *)
(* the two lookups the table supports: which names define a given byte,    *)
(* and which of M_R_<X> / M_W_<X> are defined for a register name <X>.     *)
(***************************************************************************)
EXTENDS Integers, Sequences, FiniteSets, TLC

VARIABLES b, hits, pcClassify, X, pair, pcPair

vars == <<b, hits, pcClassify, X, pair, pcPair>>

\* uint8_t: the type of every constant of the table.
uint8_t == 0..(2^8 - 1)

\* ---- the table -----------------------------------------------------------

\* The constants of namespace BASE, name |-> value.
BASE_table ==
    [M_HS |-> 0, M_ACK |-> 6, M_NACK |-> 21, M_SYN |-> 22,
     M_RESET |-> 32, M_FIRMWARE |-> 33]

\* The constants of namespace FE_02, name |-> value.
FE_02_table ==
    [M_HS |-> 0,
     M_EOT |-> 4,
     M_ACK |-> 6,
     M_NACK |-> 21,
     M_SYN |-> 22,
     M_R_DEVICEIDORIGINAL |-> 28,
     M_R_DISCOVER |-> 29,
     M_R_DEVICEID |-> 30,
     M_W_DEVICEID |-> 31,
     M_RESET |-> 32,
     M_FIRMWARE |-> 33,
     M_CLEARMEMFLASH |-> 34,
     M_SENDMEMADDRESS |-> 35,
     M_SENDMEMDATA |-> 36,
     M_ENDPROGR |-> 37,
     M_ENDUPD |-> 38,
     M_CONTINUEUPD |-> 39,
     M_CLEARING |-> 40,
     M_FORCEUPDATE |-> 41,
     M_R_SUCTIONLEVEL |-> 48,
     M_W_SUCTIONLEVEL |-> 49,
     M_R_FLOW |-> 50,
     M_R_SPEED |-> 51,
     M_R_SELECTFLOW |-> 52,
     M_W_SELECTFLOW |-> 53,
     M_R_STANDINTAKES |-> 54,
     M_W_STANDINTAKES |-> 55,
     M_R_INTAKEACTIVATION |-> 56,
     M_W_INTAKEACTIVATION |-> 57,
     M_R_SUCTIONDELAY |-> 58,
     M_W_SUCTIONDELAY |-> 59,
     M_R_DELAYTIME |-> 60,
     M_R_ACTIVATIONPEDAL |-> 61,
     M_W_ACTIVATIONPEDAL |-> 62,
     M_R_PEDALMODE |-> 63,
     M_W_PEDALMODE |-> 64,
     M_R_FILTERSTATUS |-> 65,
     M_R_RESETFILTER |-> 66,
     M_R_CONNECTEDPEDAL |-> 68,
     M_R_FILTERSAT |-> 69,
     M_RESETSTATION |-> 80,
     M_R_PIN |-> 81,
     M_W_PIN |-> 82,
     M_R_STATIONLOCKED |-> 83,
     M_W_STATIONLOCKED |-> 84,
     M_R_BEEP |-> 85,
     M_W_BEEP |-> 86,
     M_R_CONTINUOUSSUCTION |-> 87,
     M_W_CONTINUOUSSUCTION |-> 88,
     M_R_STATERROR |-> 89,
     M_R_DEVICENAME |-> 91,
     M_W_DEVICENAME |-> 92,
     M_R_PINENABLED |-> 93,
     M_W_PINENABLED |-> 94,
     M_W_WORKINTAKES |-> 96,
     M_R_COUNTERS |-> 192,
     M_R_RESETCOUNTERS |-> 193,
     M_R_COUNTERSP |-> 194,
     M_R_RESETCOUNTERSP |-> 195,
     M_R_USB_CONNECTSTATUS |-> 224,
     M_W_USB_CONNECTSTATUS |-> 225,
     M_R_RBT_CONNCONFIG |-> 240,
     M_W_RBT_CONNCONFIG |-> 241,
     M_R_RBT_CONNECTSTATUS |-> 242,
     M_W_RBT_CONNECTSTATUS |-> 243]

\* Deviation used to check C2: BASE::M_SYN mistyped as 23.
BASE_syn23 == [BASE_table EXCEPT !.M_SYN = 23]

\* namespace BASE
BASE == BASE_table

\* Deviation used to check C1: M_R_CONNECTEDPEDAL numbered 67, closing the
\* gap after M_R_RESETFILTER.
FE_02_pedal67 == [FE_02_table EXCEPT !.M_R_CONNECTEDPEDAL = 67]

\* Deviation used to check C10: M_W_PEDALMODE given the id of M_R_PEDALMODE.
FE_02_pedalmode63 == [FE_02_table EXCEPT !.M_W_PEDALMODE = 63]

\* namespace FE_02
FE_02 == FE_02_table

\* ---- lookups --------------------------------------------------------------

\* The namespaces of jbc_cmd that the file defines.
Namespaces == [BASE |-> BASE, FE_02 |-> FE_02]

\* Every <<namespace, name>> whose constant has the value v.
DefinedAs(v) ==
    {d \in (DOMAIN Namespaces) \X (DOMAIN BASE \cup DOMAIN FE_02) :
        /\ d[2] \in DOMAIN Namespaces[d[1]]
        /\ Namespaces[d[1]][d[2]] = v}

\* The naming convention of the register commands: M_R_<X> reads, M_W_<X>
\* writes register <X>.
ReadName(x) == "M_R_" \o x
WriteName(x) == "M_W_" \o x

HasPrefix(n, p) == Len(n) > Len(p) /\ SubSeq(n, 1, Len(p)) = p

\* The register names <X> that occur in FE_02 behind M_R_ or M_W_.
Registers ==
    {SubSeq(n, 5, Len(n)) :
        n \in {m \in DOMAIN FE_02 : HasPrefix(m, "M_R_") \/ HasPrefix(m, "M_W_")}}

\* The ids of M_R_<x> and M_W_<x> in FE_02; -1 where the name is undefined.
CommandPair(x) ==
    [r |-> IF ReadName(x) \in DOMAIN FE_02 THEN FE_02[ReadName(x)] ELSE -1,
     w |-> IF WriteName(x) \in DOMAIN FE_02 THEN FE_02[WriteName(x)] ELSE -1]

\* ---- state machine --------------------------------------------------------

Init ==
    /\ b \in uint8_t
    /\ hits = {}
    /\ pcClassify = "start"
    /\ X \in Registers
    /\ pair = [r |-> -1, w |-> -1]
    /\ pcPair = "start"

\* Resolve the byte b against the table.
Classify ==
    /\ pcClassify = "start"
    /\ hits' = DefinedAs(b)
    /\ pcClassify' = "done"
    /\ UNCHANGED <<b, X, pair, pcPair>>

\* Resolve the register name X to its read/write command pair.
ResolvePair ==
    /\ pcPair = "start"
    /\ pair' = CommandPair(X)
    /\ pcPair' = "done"
    /\ UNCHANGED <<b, hits, pcClassify, X>>

Next == Classify \/ ResolvePair

Spec == Init /\ [][Next]_vars

\* ---- properties -----------------------------------------------------------

\* b is defined in the namespace ns.
DefinedIn(ns) == \E d \in hits : d[1] = ns

\* The FE_02 value set as the specification enumerates it.
EnumeratedFE_02 ==
    {0, 4, 6, 21, 22} \cup (28..41) \cup (48..69) \cup (80..96)
    \cup (192..195) \cup (224..225) \cup (240..243)

\* The same enumeration without the three values the ranges 48..69 and
\* 80..96 pass over.
GapsFE_02 == {67, 90, 95}

\* C1 as stated: a byte resolves to an FE_02 command exactly when it is in
\* {0,4,6,21,22} + 28..41 + 48..69 + 80..96 + 192..195 + 224..225 + 240..243,
\* and every byte outside that set resolves to nothing (Unknown).
C1_AsStated ==
    pcClassify = "done" =>
        /\ DefinedIn("FE_02") <=> b \in EnumeratedFE_02
        /\ b \notin EnumeratedFE_02 => hits = {}

\* C1 amended: a byte resolves to an FE_02 command exactly when it is in the
\* enumerated set less 67, 90 and 95, and every other byte, 67, 90 and 95
\* included, resolves to nothing (Unknown).
C1_ExactValueSet ==
    pcClassify = "done" =>
        /\ DefinedIn("FE_02") <=> b \in EnumeratedFE_02 \ GapsFE_02
        /\ b \notin EnumeratedFE_02 \ GapsFE_02 => hits = {}

\* C1: a byte inside the enumerated ranges has been resolved and is Unknown.
C1_Witness == pcClassify = "done" /\ b = 67 /\ hits = {}

\* C2 as stated: every defined value resolves to exactly one namespace, no
\* value is defined in both BASE and FE_02.
C2_AsStated ==
    (pcClassify = "done" /\ hits # {}) => Cardinality({d[1] : d \in hits}) = 1

\* C2 amended: every defined value resolves to exactly one name; the values
\* defined in BASE are exactly 0, 6, 21, 22, 32, 33 and each of them is also
\* defined in FE_02 under that same name; every other defined value is
\* defined in FE_02 only.
C2_OneNameSharedBase ==
    pcClassify = "done" =>
        /\ \A d, e \in hits : d[2] = e[2]
        /\ DefinedIn("BASE") <=> b \in {0, 6, 21, 22, 32, 33}
        /\ DefinedIn("BASE") => DefinedIn("FE_02")

\* C2: the byte 22 has been resolved and is M_SYN of both namespaces.
C2_Witness ==
    /\ pcClassify = "done"
    /\ b = 22
    /\ hits = {<<"BASE", "M_SYN">>, <<"FE_02", "M_SYN">>}

\* The ids of register X's commands belong to no other name of FE_02, and
\* its read and its write command differ.
OwnIds ==
    /\ pair.r # pair.w
    /\ \A n \in DOMAIN FE_02 :
          FE_02[n] \in {pair.r, pair.w} => n \in {ReadName(X), WriteName(X)}

PairedRegisters ==
    {"DEVICEID", "SUCTIONLEVEL", "SELECTFLOW", "STANDINTAKES",
     "INTAKEACTIVATION", "SUCTIONDELAY", "ACTIVATIONPEDAL", "PEDALMODE",
     "PIN", "STATIONLOCKED", "BEEP", "CONTINUOUSSUCTION", "DEVICENAME",
     "PINENABLED", "USB_CONNECTSTATUS", "RBT_CONNCONFIG", "RBT_CONNECTSTATUS"}

ReadOnlyRegisters ==
    {"DEVICEIDORIGINAL", "DISCOVER", "FLOW", "SPEED", "DELAYTIME",
     "FILTERSTATUS", "RESETFILTER", "CONNECTEDPEDAL", "FILTERSAT",
     "STATERROR", "COUNTERS", "RESETCOUNTERS", "COUNTERSP", "RESETCOUNTERSP"}

WriteOnlyRegisters == {"WORKINTAKES"}

====
